---- MODULE Spec2Model ----
(***************************************************************************)
(* Tension Map Script (Blender add-on).                                    *)
(*                                                                         *)
(*   src/tensionmap.py  revision 2.3.0: geometry cache, clamping, output   *)
(*                      flags                                              *)
(*   src/__init__.py    revision 1.0.1: no cache, no clamping              *)
(*                                                                         *)
(* Numbers.  The add-on computes with floats; the model computes with      *)
(* integers in fixed point: a length, a weight, tm_minimum and tm_maximum  *)
(* are counted in steps of 1/Unit, so the property range [0.0, 1.0] is     *)
(* 0..Unit.  tm_multiply is a whole factor.  Indices are 1-based (Python's *)
(* index i is i+1 here).                                                   *)
(*                                                                         *)
(* Geometry.  The host's bmesh supplies edge lengths (calc_length); the    *)
(* model keeps a mesh's rest length per edge in obj.data and takes the     *)
(* evaluated (deformed) mesh's length per edge as the input of each        *)
(* tm_update.  The kept modifiers are deform-only, so the evaluated mesh    *)
(* has the edges of obj.data.                                              *)
(***************************************************************************)
EXTENDS Integers, Sequences, FiniteSets, TLC

\* ------------------------------------------------------------------ bounds
\* fixed-point steps per 1.0
Unit == 2
\* tm_multiply ranges over 0..MaxMultiply
MaxMultiply == 2
\* a deformed edge length ranges over 1..MaxLen
MaxLen == 3
\* scene.frame_current ranges over 1..MaxFrame
MaxFrame == 2
\* objects of the scene in the scene-level specification
NumObjects == 2
\* an object carries 0..MaxModifiers modifiers in the modifier specification
MaxModifiers == 2

\* ------------------------------------------------------- program constants
number_of_color_channels == 4

kept_modifiers ==
    {"ARMATURE", "MESH_CACHE", "CAST", "CURVE", "HOOK", "LAPLACIANSMOOTH",
     "LAPLACIANDEFORM", "LATTICE", "MESH_DEFORM", "SHRINKWRAP",
     "SIMPLE_DEFORM", "SMOOTH", "WARP", "WAVE", "CLOTH", "SOFT_BODY"}

tm_update_modes == {"OBJECT", "WEIGHT_PAINT", "VERTEX_PAINT"}

VARIABLES
    objects,               \* scene.objects: object id -> object (see NewObject)
    geometry_cache,        \* object id -> GeometryData, for the cached objects
    last_processed_frame,  \* <<>> for None, <<f>> once frame f was processed
    trace                  \* what the last handler invocation did (see Trace)

vars == <<objects, geometry_cache, last_processed_frame, trace>>

\* ------------------------------------------------------------ small helpers
RECURSIVE SumSeq(_)
SumSeq(s) == IF s = <<>> THEN 0 ELSE Head(s) + SumSeq(Tail(s))

\* the dict d without key k
Without(d, k) == [x \in DOMAIN d \ {k} |-> d[x]]

\* the dict d with d[k] = v
With(d, k, v) == [x \in DOMAIN d \cup {k} |-> IF x = k THEN v ELSE d[x]]

\* ---------------------------------------------------------- the host's data
\* One polygon: its vertices and the index of its first loop corner.
Polygon(vs, start) == [vertices |-> vs, loop_start |-> start]

\* polygon.loop_indices
loop_indices(polygon) ==
    [k \in 1..Len(polygon.vertices) |-> polygon.loop_start + k - 1]

\* len(mesh.loops): the size of every per-corner layer of the mesh
NumLoops(data) == SumSeq([p \in DOMAIN data.polygons |-> Len(data.polygons[p].vertices)])

\* A new colour layer: the host fills it with white.
White == [c \in 1..number_of_color_channels |-> Unit]

\* ------------------------------------------- src/tensionmap.py, the helpers
\* GeometryData(original_edge_lengths, vertex_color_index_mapping)
GeometryData(lengths, mapping) ==
    [original_edge_lengths |-> lengths, vertex_color_index_mapping |-> mapping]

\* (mutant of calculate_original_edge_lengths) every edge is given length 1
calculate_original_edge_lengths_unit(data) ==
    [i \in 1..Len(data.edges) |-> 1]

\* edge_lengths[i] = bmesh_orig.edges[i].calc_length(), for every edge of
\* obj.data, without modifiers
calculate_original_edge_lengths(data) ==
    [i \in 1..Len(data.edges) |-> data.lengths[i]]

\* The dict is filled under a running index, one entry per corner of each
\* polygon in turn: as a sequence, entry index is the vertex of that corner.
RECURSIVE index_mapping_loop(_, _, _)
index_mapping_loop(polygons, p, index_mapping) ==
    IF p > Len(polygons) THEN index_mapping
    ELSE LET polygon == polygons[p]
             corners == [loop_vertex_idx \in DOMAIN loop_indices(polygon) |->
                            polygon.vertices[loop_vertex_idx]]
         IN  index_mapping_loop(polygons, p + 1, index_mapping \o corners)

\* (mutant of calculate_vertex_color_index_mapping) every corner of a
\* polygon is mapped to the polygon's first vertex
calculate_vertex_color_index_mapping_first(data) ==
    index_mapping_loop(
        [p \in DOMAIN data.polygons |->
            [data.polygons[p] EXCEPT !.vertices =
                [k \in DOMAIN @ |-> data.polygons[p].vertices[1]]]],
        1, <<>>)

calculate_vertex_color_index_mapping(data) ==
    index_mapping_loop(data.polygons, 1, <<>>)

\* (mutant of update_geometry_cache_for_object) no entry is ever deleted
update_geometry_cache_for_object_keeping(cache, objs, o) ==
    IF objs[o].data.tm_enable_geometry_cache
    THEN With(cache, o,
              GeometryData(calculate_original_edge_lengths(objs[o].data),
                           calculate_vertex_color_index_mapping(objs[o].data)))
    ELSE cache

\* geometry_cache after update_geometry_cache_for_object(obj)
update_geometry_cache_for_object(cache, objs, o) ==
    IF objs[o].data.tm_enable_geometry_cache
    THEN With(cache, o,
              GeometryData(calculate_original_edge_lengths(objs[o].data),
                           calculate_vertex_color_index_mapping(objs[o].data)))
    ELSE IF o \in DOMAIN cache THEN Without(cache, o) ELSE cache

\* obj after get_or_create_vertex_group(obj, group_name): a new group holds
\* every vertex with weight 0.0
get_or_create_vertex_group(obj, group_name) ==
    IF group_name \notin DOMAIN obj.vertex_groups
    THEN [obj EXCEPT !.vertex_groups =
             With(@, group_name, [i \in 1..obj.data.vertices |-> 0])]
    ELSE obj

\* obj after get_or_create_vertex_colors(obj, colors_name): the host sizes a
\* new layer to the mesh's loop corners
get_or_create_vertex_colors(obj, colors_name) ==
    IF colors_name \notin DOMAIN obj.data.vertex_colors
    THEN [obj EXCEPT !.data.vertex_colors =
             With(@, colors_name, [i \in 1..NumLoops(obj.data) |-> White])]
    ELSE obj

\* clamp = lambda value, lower, upper: ...
clamp(value, lower, upper) ==
    IF value < lower THEN lower ELSE IF value > upper THEN upper ELSE value

\* (mutant of deformation_factor) the lengths the other way round
deformation_factor_swapped(original_edge_length, deformed_edge_length, tm_multiply) ==
    (deformed_edge_length - original_edge_length) * tm_multiply

\* deformation_factor of one edge
deformation_factor(original_edge_length, deformed_edge_length, tm_multiply) ==
    (original_edge_length - deformed_edge_length) * tm_multiply

\* The edge loop from edge i on: both endpoints lose the edge's factor.
RECURSIVE edge_loop(_, _, _, _, _, _)
edge_loop(edges, original, deformed, tm_multiply, i, weights) ==
    IF i > Len(edges) THEN weights
    ELSE LET factor == deformation_factor(original[i], deformed[i], tm_multiply)
             first_vertex == edges[i][1]
             second_vertex == edges[i][2]
             w1 == [weights EXCEPT ![first_vertex] = @ - factor]
             w2 == [w1 EXCEPT ![second_vertex] = @ - factor]
         IN  edge_loop(edges, original, deformed, tm_multiply, i + 1, w2)

\* (mutant of stretch_value) the idle channel is filled with 0.0
stretch_value_idle_zero(w, tm_minimum, tm_maximum) ==
    IF w >= 0 THEN clamp(w, tm_minimum, tm_maximum) ELSE 0

\* stretch_value and squeeze_value of a vertex of weight w
stretch_value(w, tm_minimum, tm_maximum) ==
    IF w >= 0 THEN clamp(w, tm_minimum, tm_maximum) ELSE tm_minimum

squeeze_value(w, tm_minimum, tm_maximum) ==
    IF w >= 0 THEN tm_minimum ELSE clamp(0 - w, tm_minimum, tm_maximum)

\* vertex_colors[i] = (stretch_value, squeeze_value, 0.0, 1.0)
vertex_color(stretch, squeeze) == <<stretch, squeeze, 0, Unit>>

\* group.add([i], weight, "REPLACE")
vertex_group_add(group, i, weight) == With(group, i, weight)

\* The writes of the per-vertex loop to one vertex group, from vertex i on.
RECURSIVE write_group(_, _, _)
write_group(group, values, i) ==
    IF i > Len(values) THEN group
    ELSE write_group(vertex_group_add(group, i, values[i]), values, i + 1)

\* (mutant of restore_modifiers) every modifier is left shown
restore_modifiers_all_shown(modifiers, show_original_state) ==
    [i \in DOMAIN modifiers |-> [modifiers[i] EXCEPT !.show_viewport = TRUE]]

\* The modifiers as the evaluation sees them: those not kept are hidden.
hide_modifiers(modifiers) ==
    [i \in DOMAIN modifiers |->
        IF modifiers[i].type \notin kept_modifiers
        THEN [modifiers[i] EXCEPT !.show_viewport = FALSE]
        ELSE modifiers[i]]

\* obj.modifiers[i].show_viewport = show_original_state[i]
restore_modifiers(modifiers, show_original_state) ==
    [i \in DOMAIN modifiers |->
        [modifiers[i] EXCEPT !.show_viewport = show_original_state[i]]]

\* The first index at which the corner loop raises (KeyError: the mapping has
\* no such key; IndexError: the mapped vertex is past vertex_colors), or
\* size + 1 when it runs to its end.
corner_loop_stop(size, mapping, num_vertices) ==
    LET bad == {i \in 1..size : i > Len(mapping) \/ mapping[i] > num_vertices}
    IN  IF bad = {} THEN size + 1
        ELSE CHOOSE i \in bad : \A j \in bad : i <= j

\* What one call of tm_update leaves behind: the outcome and the locals.
Call(o, outcome, original, deformed, weights, stretch, squeeze, shown, data) ==
    [obj |-> o, outcome |-> outcome, original |-> original,
     deformed |-> deformed, weights |-> weights, stretch |-> stretch,
     squeeze |-> squeeze, shown |-> shown,
     tm_minimum |-> data.tm_minimum, tm_maximum |-> data.tm_maximum,
     tm_multiply |-> data.tm_multiply]

Returned(objs, cache, call) ==
    [objects |-> objs, geometry_cache |-> cache, call |-> call]

EarlyReturn(objs, cache, o, why) ==
    Returned(objs, cache,
             Call(o, why, <<>>, <<>>, <<>>, <<>>, <<>>, <<>>, objs[o].data))

\* (mutant of no_output_enabled) the update never returns for want of an output
no_output_enabled_never(data) == FALSE

\* not obj.data.tm_enable_vertex_colors and not obj.data.tm_enable_vertex_groups
no_output_enabled(data) ==
    ~data.tm_enable_vertex_colors /\ ~data.tm_enable_vertex_groups

\* (mutant of cache_for_update) the entry is rebuilt by every update
cache_for_update_rebuilding(cache, objs, o) ==
    update_geometry_cache_for_object(cache, objs, o)

\* the cache lookup of tm_update: the entry is built only when there is none
cache_for_update(cache, objs, o) ==
    IF o \notin DOMAIN cache
    THEN update_geometry_cache_for_object(cache, objs, o)
    ELSE cache

\* tm_update(obj, context), with the evaluated mesh's edge lengths `deformed`.
\* The outcome is "finished", an early return, or the exception raised; what
\* was written before an exception stays written.
tm_update(objs, cache, o, deformed) ==
    LET obj == objs[o]
        data == obj.data
    IN
    IF obj.type # "MESH" THEN EarlyReturn(objs, cache, o, "not_mesh")
    ELSE IF ~data.tm_active THEN EarlyReturn(objs, cache, o, "not_active")
    ELSE IF no_output_enabled(data)
         THEN EarlyReturn(objs, cache, o, "no_output")
    ELSE IF obj.mode \notin tm_update_modes
         THEN EarlyReturn(objs, cache, o, "wrong_mode")
    ELSE
    LET obj1 == IF data.tm_enable_vertex_groups
                THEN get_or_create_vertex_group(
                         get_or_create_vertex_group(obj, "tm_squeeze"),
                         "tm_stretch")
                ELSE obj
        num_vertices == data.vertices
        show_original_state ==
            [i \in DOMAIN obj.modifiers |-> obj.modifiers[i].show_viewport]
        hidden == hide_modifiers(obj.modifiers)
        shown == [i \in DOMAIN hidden |-> hidden[i].show_viewport]
        obj2 == [obj1 EXCEPT !.modifiers =
                    restore_modifiers(hidden, show_original_state)]
        cache1 == IF data.tm_enable_geometry_cache
                  THEN cache_for_update(cache, objs, o)
                  ELSE cache
        original == IF data.tm_enable_geometry_cache
                    THEN cache1[o].original_edge_lengths
                    ELSE data.lengths
        num_edges == Len(data.edges)
    IN
    IF num_edges > Len(original)
    THEN \* original_edge_lengths[i]: IndexError
         Returned([objs EXCEPT ![o] = obj2], cache1,
                  Call(o, "IndexError", original, deformed, <<>>, <<>>, <<>>,
                       shown, data))
    ELSE
    LET weights == edge_loop(data.edges, original, deformed, data.tm_multiply,
                             1, [i \in 1..num_vertices |-> 0])
        stretch == [i \in 1..num_vertices |->
                       stretch_value(weights[i], data.tm_minimum, data.tm_maximum)]
        squeeze == [i \in 1..num_vertices |->
                       squeeze_value(weights[i], data.tm_minimum, data.tm_maximum)]
        obj3 == IF data.tm_enable_vertex_groups
                THEN [obj2 EXCEPT
                        !.vertex_groups["tm_squeeze"] = write_group(@, squeeze, 1),
                        !.vertex_groups["tm_stretch"] = write_group(@, stretch, 1)]
                ELSE obj2
        vertex_colors == [i \in 1..num_vertices |->
                             vertex_color(stretch[i], squeeze[i])]
        vertex_color_index_mapping ==
            IF data.tm_enable_geometry_cache
            THEN cache1[o].vertex_color_index_mapping
            ELSE calculate_vertex_color_index_mapping(data)
        obj4 == get_or_create_vertex_colors(obj3, "tm_tension")
        colors_tension_data == obj4.data.vertex_colors["tm_tension"]
        tension_color_size == Len(colors_tension_data)
        stop == corner_loop_stop(tension_color_size, vertex_color_index_mapping,
                                 num_vertices)
        obj5 == [obj4 EXCEPT !.data.vertex_colors["tm_tension"] =
                    [i \in 1..tension_color_size |->
                        IF i < stop
                        THEN vertex_colors[vertex_color_index_mapping[i]]
                        ELSE colors_tension_data[i]]]
        done(ob, outcome) ==
            Returned([objs EXCEPT ![o] = ob], cache1,
                     Call(o, outcome, original, deformed, weights, stretch,
                          squeeze, shown, data))
    IN
    IF ~data.tm_enable_vertex_colors THEN done(obj3, "finished")
    ELSE IF stop > tension_color_size THEN done(obj5, "finished")
    ELSE IF stop > Len(vertex_color_index_mapping) THEN done(obj5, "KeyError")
    ELSE done(obj5, "IndexError")

Raised(call) == call.outcome \in {"IndexError", "KeyError"}

\* ------------------------------------------ src/tensionmap.py, the handlers
\* What the last step did: op is the callback that ran ("tm_update_handler",
\* "tm_update_selected", "tm_update_geometry_cache"), or "host" for a step of
\* the host alone; the frame of a tick (0 otherwise); and the calls of
\* tm_update it made, in order.
Trace(op, frame, calls) == [op |-> op, frame |-> frame, calls |-> calls]

\* for obj in scene.objects: tm_update(obj, bpy.context), from object i on.
\* An exception of tm_update leaves the loop: Python has no handler for it.
RECURSIVE for_each_object(_, _, _, _, _)
for_each_object(objs, cache, i, deformed, calls) ==
    IF i > Len(objs)
    THEN [objects |-> objs, geometry_cache |-> cache, calls |-> calls]
    ELSE LET r == tm_update(objs, cache, i, deformed[i])
         IN  IF Raised(r.call)
             THEN [objects |-> r.objects, geometry_cache |-> r.geometry_cache,
                   calls |-> Append(calls, r.call)]
             ELSE for_each_object(r.objects, r.geometry_cache, i + 1, deformed,
                                  Append(calls, r.call))

\* whether tm_update_handler goes on to the objects at this frame
frame_changed(last, frame_current) == last # <<frame_current>>

\* tm_update_handler(scene) with scene.frame_current = frame_current;
\* deformed[o] is the evaluated mesh of object o at this frame
tm_update_handler(frame_current, deformed) ==
    IF ~frame_changed(last_processed_frame, frame_current)
    THEN /\ UNCHANGED <<objects, geometry_cache, last_processed_frame>>
         /\ trace' = Trace("tm_update_handler", frame_current, <<>>)
    ELSE LET r == for_each_object(objects, geometry_cache, 1, deformed, <<>>)
         IN  /\ last_processed_frame' = <<frame_current>>
             /\ objects' = r.objects
             /\ geometry_cache' = r.geometry_cache
             /\ trace' = Trace("tm_update_handler", frame_current, r.calls)

\* tm_update_selected(self, context), context.object = o
tm_update_selected(objs, cache, o, deformed) == tm_update(objs, cache, o, deformed)

\* tm_update_geometry_cache(self, context), context.object = o
tm_update_geometry_cache(objs, cache, o, deformed) ==
    tm_update(objs, update_geometry_cache_for_object(cache, objs, o), o, deformed)

\* The state after a panel interaction that ran one tm_update.
Commit(r, op) ==
    /\ objects' = r.objects
    /\ geometry_cache' = r.geometry_cache
    /\ trace' = Trace(op, 0, <<r.call>>)
    /\ UNCHANGED last_processed_frame

IsMesh(o) == objects[o].type = "MESH"

\* ------------------------------------------------------------- the actions
\* frame_change_post fires
Tick(frame_current, deformed) == tm_update_handler(frame_current, deformed)

\* the operator tm.update_selected
TmUpdateSelected(o, deformed) ==
    /\ IsMesh(o)
    /\ Commit(tm_update_selected(objects, geometry_cache, o, deformed),
              "tm_update_selected")

\* the operator tm.update_geometry_cache
TmUpdateGeometryCache(o, deformed) ==
    /\ IsMesh(o)
    /\ Commit(tm_update_geometry_cache(objects, geometry_cache, o, deformed),
              "tm_update_geometry_cache")

\* The properties of add_props: the host stores the value, then calls the
\* property's update callback.
Set_tm_active(o, value, deformed) ==
    /\ IsMesh(o)
    /\ Commit(tm_update_selected([objects EXCEPT ![o].data.tm_active = value],
                                 geometry_cache, o, deformed), "tm_update_selected")

Set_tm_multiply(o, value, deformed) ==
    /\ IsMesh(o)
    /\ Commit(tm_update_selected([objects EXCEPT ![o].data.tm_multiply = value],
                                 geometry_cache, o, deformed), "tm_update_selected")

Set_tm_minimum(o, value, deformed) ==
    /\ IsMesh(o)
    /\ Commit(tm_update_selected([objects EXCEPT ![o].data.tm_minimum = value],
                                 geometry_cache, o, deformed), "tm_update_selected")

Set_tm_maximum(o, value, deformed) ==
    /\ IsMesh(o)
    /\ Commit(tm_update_selected([objects EXCEPT ![o].data.tm_maximum = value],
                                 geometry_cache, o, deformed), "tm_update_selected")

Set_tm_enable_vertex_groups(o, value, deformed) ==
    /\ IsMesh(o)
    /\ Commit(tm_update_selected(
                  [objects EXCEPT ![o].data.tm_enable_vertex_groups = value],
                  geometry_cache, o, deformed), "tm_update_selected")

Set_tm_enable_vertex_colors(o, value, deformed) ==
    /\ IsMesh(o)
    /\ Commit(tm_update_selected(
                  [objects EXCEPT ![o].data.tm_enable_vertex_colors = value],
                  geometry_cache, o, deformed), "tm_update_selected")

Set_tm_enable_geometry_cache(o, value, deformed) ==
    /\ IsMesh(o)
    /\ Commit(tm_update_geometry_cache(
                  [objects EXCEPT ![o].data.tm_enable_geometry_cache = value],
                  geometry_cache, o, deformed), "tm_update_geometry_cache")

\* ----------------------------------------------------------------- the host
\* Mesh geometry the host may hold: the vertex count, the edges, the rest
\* length of each edge and the polygons, whose loop corners the host stores
\* one polygon after the other.
Wire ==
    [vertices |-> 2, edges |-> << <<1, 2>> >>, lengths |-> <<2>>,
     polygons |-> <<>>]

\* a triangle and a loose vertex
Tri ==
    [vertices |-> 4, edges |-> << <<1, 2>>, <<2, 3>>, <<3, 1>> >>,
     lengths |-> <<2, 2, 2>>,
     polygons |-> << Polygon(<<1, 2, 3>>, 1) >>]

\* Tri with its face flipped: the same counts, another corner order
TriFlipped ==
    [vertices |-> 4, edges |-> << <<1, 2>>, <<2, 3>>, <<3, 1>> >>,
     lengths |-> <<2, 2, 2>>,
     polygons |-> << Polygon(<<3, 2, 1>>, 1) >>]

\* two triangles on an edge
TwoTris ==
    [vertices |-> 4,
     edges |-> << <<1, 2>>, <<2, 3>>, <<3, 1>>, <<3, 4>>, <<4, 1>> >>,
     lengths |-> <<2, 2, 2, 2, 2>>,
     polygons |-> << Polygon(<<1, 2, 3>>, 1), Polygon(<<1, 3, 4>>, 4) >>]

NoGeometry == [vertices |-> 0, edges |-> <<>>, lengths |-> <<>>, polygons |-> <<>>]

\* obj.data of a new mesh: the properties at the defaults of add_props
NewData(geometry) ==
    [tm_active |-> FALSE, tm_multiply |-> 1, tm_minimum |-> 0,
     tm_maximum |-> Unit, tm_enable_vertex_groups |-> FALSE,
     tm_enable_vertex_colors |-> FALSE, tm_enable_geometry_cache |-> FALSE,
     vertices |-> geometry.vertices, edges |-> geometry.edges,
     lengths |-> geometry.lengths, polygons |-> geometry.polygons,
     vertex_colors |-> <<>>]

\* a subdivision surface (not kept) over an armature (kept), both shown
DefaultModifiers ==
    << [type |-> "ARMATURE", show_viewport |-> TRUE],
       [type |-> "SUBSURF", show_viewport |-> TRUE] >>

NewObject(type, geometry, modifiers) ==
    [type |-> type, mode |-> "OBJECT", modifiers |-> modifiers,
     vertex_groups |-> <<>>, data |-> NewData(geometry)]

\* The evaluated mesh's edge lengths the host can hand to tm_update: any
\* lengths, edge by edge.
Deformations(data) == [1..Len(data.edges) -> 1..MaxLen]

\* The evaluated mesh under a pose that moves the first edge alone.
Poses(data) ==
    IF data.edges = <<>> THEN {<<>>}
    ELSE {[data.lengths EXCEPT ![1] = l] : l \in 1..MaxLen}

\* The evaluated mesh at rest, and with every edge stretched to MaxLen.
RestOrStretched(data) ==
    {data.lengths, [i \in 1..Len(data.edges) |-> MaxLen]}

\* The user edits the mesh: the geometry is replaced, and the host resizes
\* the per-vertex and per-corner layers (a new corner is white, a new vertex
\* is in no group).
EditMesh(o, geometry) ==
    /\ IsMesh(o)
    /\ LET obj == objects[o]
           data1 == [obj.data EXCEPT
                       !.vertices = geometry.vertices,
                       !.edges = geometry.edges,
                       !.lengths = geometry.lengths,
                       !.polygons = geometry.polygons]
           data2 == [data1 EXCEPT !.vertex_colors =
                       [n \in DOMAIN @ |->
                           [i \in 1..NumLoops(data1) |->
                               IF i <= Len(@[n]) THEN @[n][i] ELSE White]]]
           groups == [n \in DOMAIN obj.vertex_groups |->
                         [v \in DOMAIN obj.vertex_groups[n] \cap 1..geometry.vertices |->
                             obj.vertex_groups[n][v]]]
       IN  /\ geometry # [vertices |-> obj.data.vertices, edges |-> obj.data.edges,
                          lengths |-> obj.data.lengths, polygons |-> obj.data.polygons]
           /\ objects' = [objects EXCEPT ![o] =
                             [obj EXCEPT !.data = data2, !.vertex_groups = groups]]
    /\ trace' = Trace("host", 0, <<>>)
    /\ UNCHANGED <<geometry_cache, last_processed_frame>>

\* The user switches the object's mode.
SetMode(o, mode) ==
    /\ IsMesh(o)
    /\ objects[o].mode # mode
    /\ objects' = [objects EXCEPT ![o].mode = mode]
    /\ trace' = Trace("host", 0, <<>>)
    /\ UNCHANGED <<geometry_cache, last_processed_frame>>

\* The user shows or hides a modifier in the viewport.
SetShowViewport(o, i, value) ==
    /\ IsMesh(o)
    /\ i \in DOMAIN objects[o].modifiers
    /\ objects[o].modifiers[i].show_viewport # value
    /\ objects' = [objects EXCEPT ![o].modifiers[i].show_viewport = value]
    /\ trace' = Trace("host", 0, <<>>)
    /\ UNCHANGED <<geometry_cache, last_processed_frame>>

\* ------------------------------------------------------- the specifications
Objs == DOMAIN objects

\* one evaluated mesh per object of the scene
SceneDeformations(D(_)) ==
    {d \in [Objs -> UNION {D(objects[o].data) : o \in Objs}] :
        \A o \in Objs : d[o] \in D(objects[o].data)}

\* Spec: the panel of one mesh, from registration on.  Every property is set
\* through the panel and the operators run; the mesh is one edge, posed at
\* any length, and is not edited.
Init ==
    /\ objects = << NewObject("MESH", Wire, DefaultModifiers) >>
    /\ geometry_cache = <<>>
    /\ last_processed_frame = <<>>
    /\ trace = Trace("register", 0, <<>>)

Next ==
    \/ \E o \in Objs : \E d \in Deformations(objects[o].data) :
          TmUpdateSelected(o, d)
    \/ \E o \in Objs : \E d \in Deformations(objects[o].data) :
          TmUpdateGeometryCache(o, d)
    \/ \E o \in Objs : \E d \in Deformations(objects[o].data) :
          \E b \in BOOLEAN : Set_tm_active(o, b, d)
    \/ \E o \in Objs : \E d \in Deformations(objects[o].data) :
          \E v \in 0..MaxMultiply : Set_tm_multiply(o, v, d)
    \/ \E o \in Objs : \E d \in Deformations(objects[o].data) :
          \E v \in 0..Unit : Set_tm_minimum(o, v, d)
    \/ \E o \in Objs : \E d \in Deformations(objects[o].data) :
          \E v \in 0..Unit : Set_tm_maximum(o, v, d)
    \/ \E o \in Objs : \E d \in Deformations(objects[o].data) :
          \E b \in BOOLEAN : Set_tm_enable_vertex_groups(o, b, d)
    \/ \E o \in Objs : \E d \in Deformations(objects[o].data) :
          \E b \in BOOLEAN : Set_tm_enable_vertex_colors(o, b, d)
    \/ \E o \in Objs : \E d \in Deformations(objects[o].data) :
          \E b \in BOOLEAN : Set_tm_enable_geometry_cache(o, b, d)

Spec == Init /\ [][Next]_vars

\* A mesh as a saved file holds it when the properties were set in edit mode,
\* where tm_update returns early: active, with the given properties, and no
\* output written yet.  geometry_cache and last_processed_frame are module
\* globals: they start empty whenever the add-on is loaded, whatever the
\* properties of the file's meshes are.
Configured(geometry, groups, colors, multiply, minimum, maximum) ==
    [NewObject("MESH", geometry, DefaultModifiers) EXCEPT
        !.data.tm_active = TRUE,
        !.data.tm_enable_vertex_groups = groups,
        !.data.tm_enable_vertex_colors = colors,
        !.data.tm_multiply = multiply,
        !.data.tm_minimum = minimum,
        !.data.tm_maximum = maximum]

\* SolverSpec: one configured triangle, its properties drawn from their
\* ranges, updated under every deformation, with and without the cache.
SolverInit ==
    /\ \E groups, colors, cached \in BOOLEAN :
       \E multiply \in 0..MaxMultiply : \E minimum, maximum \in 0..Unit :
          /\ groups \/ colors
          /\ objects = << [Configured(Tri, groups, colors, multiply, minimum, maximum)
                             EXCEPT !.data.tm_enable_geometry_cache = cached] >>
    /\ geometry_cache = <<>>
    /\ last_processed_frame = <<>>
    /\ trace = Trace("register", 0, <<>>)

SolverNext ==
    \E o \in Objs : \E d \in Deformations(objects[o].data) :
        TmUpdateSelected(o, d)

SolverSpec == SolverInit /\ [][SolverNext]_vars

\* CacheSpec: one configured mesh at the default multiplier, minimum and
\* maximum.  The user edits the mesh, toggles and refreshes the geometry
\* cache, switches modes; updates come from the panel and from frame ticks.
CacheMeshes == {Wire, Tri, TriFlipped, TwoTris}

CacheInit ==
    /\ \E groups, colors \in BOOLEAN : \E g \in CacheMeshes :
          /\ groups \/ colors
          /\ objects = << Configured(g, groups, colors, 1, 0, Unit) >>
    /\ geometry_cache = <<>>
    /\ last_processed_frame = <<>>
    /\ trace = Trace("register", 0, <<>>)

CacheNext ==
    \/ \E f \in 1..MaxFrame : \E d \in SceneDeformations(Poses) : Tick(f, d)
    \/ \E o \in Objs : \E d \in Poses(objects[o].data) : TmUpdateSelected(o, d)
    \/ \E o \in Objs : \E d \in Poses(objects[o].data) :
          TmUpdateGeometryCache(o, d)
    \/ \E o \in Objs : \E d \in Poses(objects[o].data) :
          \E b \in BOOLEAN : Set_tm_enable_geometry_cache(o, b, d)
    \/ \E o \in Objs : \E g \in CacheMeshes : EditMesh(o, g)
    \/ \E o \in Objs : \E m \in {"OBJECT", "EDIT"} : SetMode(o, m)

CacheSpec == CacheInit /\ [][CacheNext]_vars

\* SceneSpec: a scene of NumObjects objects, each an empty or a configured
\* one-edge mesh writing vertex groups.  Frames tick; the user edits a mesh,
\* toggles its cache and its active flag.
SceneMeshes == {Wire, Tri}

SceneInit ==
    /\ objects \in [1..NumObjects ->
                       {NewObject("EMPTY", NoGeometry, <<>>),
                        Configured(Wire, TRUE, FALSE, 1, 0, Unit)}]
    /\ geometry_cache = <<>>
    /\ last_processed_frame = <<>>
    /\ trace = Trace("register", 0, <<>>)

SceneNext ==
    \/ \E f \in 1..MaxFrame : \E d \in SceneDeformations(RestOrStretched) :
          Tick(f, d)
    \/ \E o \in Objs : \E d \in RestOrStretched(objects[o].data) :
          \E b \in BOOLEAN : Set_tm_enable_geometry_cache(o, b, d)
    \/ \E o \in Objs : \E d \in RestOrStretched(objects[o].data) :
          \E b \in BOOLEAN : Set_tm_active(o, b, d)
    \/ \E o \in Objs : \E g \in SceneMeshes : EditMesh(o, g)

SceneSpec == SceneInit /\ [][SceneNext]_vars

\* LazyCacheSpec: CacheSpec on a file saved with the cache flag on or off.
\* With the flag on, geometry_cache has no entry for the mesh until its first
\* update builds one.
LazyCacheInit ==
    /\ \E groups, colors, cached \in BOOLEAN : \E g \in CacheMeshes :
          /\ groups \/ colors
          /\ objects = << [Configured(g, groups, colors, 1, 0, Unit)
                             EXCEPT !.data.tm_enable_geometry_cache = cached] >>
    /\ geometry_cache = <<>>
    /\ last_processed_frame = <<>>
    /\ trace = Trace("register", 0, <<>>)

LazyCacheSpec == LazyCacheInit /\ [][CacheNext]_vars

\* ModifierSpec: one configured one-edge mesh under any stack of up to
\* MaxModifiers modifiers, each an armature (kept) or a subdivision surface
\* (not kept), shown or hidden.  The user shows and hides modifiers, edits the
\* mesh and toggles its cache; updates come from the panel and from ticks.
ModifierTypes == {"ARMATURE", "SUBSURF"}

ModifierStacks ==
    UNION {[1..n -> [type : ModifierTypes, show_viewport : BOOLEAN]] :
              n \in 0..MaxModifiers}

ModifierInit ==
    /\ \E modifiers \in ModifierStacks :
          objects = << [Configured(Wire, TRUE, FALSE, 1, 0, Unit)
                           EXCEPT !.modifiers = modifiers] >>
    /\ geometry_cache = <<>>
    /\ last_processed_frame = <<>>
    /\ trace = Trace("register", 0, <<>>)

ModifierNext ==
    \/ \E f \in 1..MaxFrame : \E d \in SceneDeformations(RestOrStretched) :
          Tick(f, d)
    \/ \E o \in Objs : \E d \in RestOrStretched(objects[o].data) :
          TmUpdateSelected(o, d)
    \/ \E o \in Objs : \E d \in RestOrStretched(objects[o].data) :
          \E b \in BOOLEAN : Set_tm_enable_geometry_cache(o, b, d)
    \/ \E o \in Objs : \E g \in SceneMeshes : EditMesh(o, g)
    \/ \E o \in Objs : \E i \in 1..MaxModifiers : \E b \in BOOLEAN :
          SetShowViewport(o, i, b)

ModifierSpec == ModifierInit /\ [][ModifierNext]_vars

\* OutputSpec: the panel of one triangle with a loose vertex, from
\* registration on.  The user switches the mesh's active flag, its two output
\* flags and its cache flag and runs the update operator; frames tick; the
\* first edge is posed at any length.
OutputInit ==
    /\ objects = << NewObject("MESH", Tri, DefaultModifiers) >>
    /\ geometry_cache = <<>>
    /\ last_processed_frame = <<>>
    /\ trace = Trace("register", 0, <<>>)

OutputNext ==
    \/ \E f \in 1..MaxFrame : \E d \in SceneDeformations(Poses) : Tick(f, d)
    \/ \E o \in Objs : \E d \in Poses(objects[o].data) : TmUpdateSelected(o, d)
    \/ \E o \in Objs : \E d \in Poses(objects[o].data) :
          \E b \in BOOLEAN : Set_tm_active(o, b, d)
    \/ \E o \in Objs : \E d \in Poses(objects[o].data) :
          \E b \in BOOLEAN : Set_tm_enable_vertex_groups(o, b, d)
    \/ \E o \in Objs : \E d \in Poses(objects[o].data) :
          \E b \in BOOLEAN : Set_tm_enable_vertex_colors(o, b, d)
    \/ \E o \in Objs : \E d \in Poses(objects[o].data) :
          \E b \in BOOLEAN : Set_tm_enable_geometry_cache(o, b, d)

OutputSpec == OutputInit /\ [][OutputNext]_vars

\* ------------------------------------------- src/__init__.py, revision 1.0.1
\* get_or_create_vertex_group returns the group's index and
\* get_or_create_vertex_colors the layer's name: the model names a group by
\* its name, so the index returned for a name is that name.
\*
\* The vertex loop of revision 1.0.1: the group index_stretch takes the weight
\* of a stretched vertex, the group index_squeeze that of a squeezed one.
write_groups_v1(groups, weights, index_stretch, index_squeeze) ==
    [groups EXCEPT
        ![index_stretch] = write_group(@, [i \in DOMAIN weights |->
                               IF weights[i] >= 0 THEN weights[i] ELSE 0], 1),
        ![index_squeeze] = write_group(@, [i \in DOMAIN weights |->
                               IF weights[i] >= 0 THEN 0 ELSE 0 - weights[i]], 1)]

\* The colour loop of revision 1.0.1: r, g and b of every corner of every
\* polygon, at the corner's own loop index; alpha is left alone.
RECURSIVE write_colors_v1(_, _, _, _, _)
write_colors_v1(layer, polygons, p, group_r, group_g) ==
    IF p > Len(polygons) THEN layer
    ELSE LET polygon == polygons[p]
             at == loop_indices(polygon)
             layer1 == [v \in DOMAIN layer |->
                          IF \E k \in DOMAIN at : at[k] = v
                          THEN LET k == CHOOSE k \in DOMAIN at : at[k] = v
                                   vertex == polygon.vertices[k]
                               IN  <<group_r[vertex], group_g[vertex], 0, layer[v][4]>>
                          ELSE layer[v]]
         IN  write_colors_v1(layer1, polygons, p + 1, group_r, group_g)

\* tm_update(obj, scene) of revision 1.0.1
tm_update_v1(objs, o, deformed) ==
    LET obj == objs[o]
        data == obj.data
    IN
    IF obj.type # "MESH" THEN EarlyReturn(objs, <<>>, o, "not_mesh")
    ELSE IF ~data.tm_active THEN EarlyReturn(objs, <<>>, o, "not_active")
    ELSE
    LET index_squeeze == "tm_stretch"
        index_stretch == "tm_squeeze"
        index_tension == "tm_tension"
        obj1 == get_or_create_vertex_colors(
                    get_or_create_vertex_group(
                        get_or_create_vertex_group(obj, index_squeeze),
                        index_stretch),
                    index_tension)
        show_original_state ==
            [i \in DOMAIN obj.modifiers |-> obj.modifiers[i].show_viewport]
        hidden == hide_modifiers(obj.modifiers)
        shown == [i \in DOMAIN hidden |-> hidden[i].show_viewport]
        obj2 == [obj1 EXCEPT !.modifiers =
                    restore_modifiers(hidden, show_original_state)]
        \* the source calls the rest length deformed_edge_length and the
        \* evaluated one original_edge_length; edge_loop subtracts
        \* (first - second) * tm_multiply
        weights == edge_loop(data.edges, data.lengths, deformed,
                             data.tm_multiply, 1, [i \in 1..data.vertices |-> 0])
        groups == write_groups_v1(obj2.vertex_groups, weights, index_stretch,
                                  index_squeeze)
        obj3 == [obj2 EXCEPT
                    !.vertex_groups = groups,
                    !.data.vertex_colors[index_tension] =
                        write_colors_v1(@, data.polygons, 1,
                                        groups[index_stretch], groups[index_squeeze])]
    IN  Returned([objs EXCEPT ![o] = obj3], <<>>,
                 Call(o, "finished", data.lengths, deformed, weights,
                      groups[index_stretch], groups[index_squeeze], shown, data))

RECURSIVE for_each_object_v1(_, _, _, _)
for_each_object_v1(objs, i, deformed, calls) ==
    IF i > Len(objs) THEN [objects |-> objs, calls |-> calls]
    ELSE LET r == tm_update_v1(objs, i, deformed[i])
         IN  for_each_object_v1(r.objects, i + 1, deformed, Append(calls, r.call))

\* tm_update_handler(scene) of revision 1.0.1
tm_update_handler_v1(frame_current, deformed) ==
    IF last_processed_frame # <<frame_current>>
    THEN LET r == for_each_object_v1(objects, 1, deformed, <<>>)
         IN  /\ last_processed_frame' = <<frame_current>>
             /\ objects' = r.objects
             /\ trace' = Trace("tm_update_handler", frame_current, r.calls)
             /\ UNCHANGED geometry_cache
    ELSE /\ trace' = Trace("tm_update_handler", frame_current, <<>>)
         /\ UNCHANGED <<objects, geometry_cache, last_processed_frame>>

Tick_v1(frame_current, deformed) == tm_update_handler_v1(frame_current, deformed)

\* the operator tm.update_selected of revision 1.0.1: tm_update_selected(context)
TmUpdateSelected_v1(o, deformed) ==
    /\ IsMesh(o)
    /\ LET r == tm_update_v1(objects, o, deformed)
       IN  /\ objects' = r.objects
           /\ trace' = Trace("tm_update_selected", 0, <<r.call>>)
    /\ UNCHANGED <<geometry_cache, last_processed_frame>>

\* The properties of revision 1.0.1 have no update callback.
Set_tm_active_v1(o, value) ==
    /\ IsMesh(o)
    /\ objects' = [objects EXCEPT ![o].data.tm_active = value]
    /\ trace' = Trace("host", 0, <<>>)
    /\ UNCHANGED <<geometry_cache, last_processed_frame>>

Set_tm_multiply_v1(o, value) ==
    /\ IsMesh(o)
    /\ objects' = [objects EXCEPT ![o].data.tm_multiply = value]
    /\ trace' = Trace("host", 0, <<>>)
    /\ UNCHANGED <<geometry_cache, last_processed_frame>>

\* SpecV1: revision 1.0.1 on one triangle, from registration on.
InitV1 ==
    /\ objects = << NewObject("MESH", Tri, DefaultModifiers) >>
    /\ geometry_cache = <<>>
    /\ last_processed_frame = <<>>
    /\ trace = Trace("register", 0, <<>>)

NextV1 ==
    \/ \E f \in 1..MaxFrame : \E d \in SceneDeformations(Poses) : Tick_v1(f, d)
    \/ \E o \in Objs : \E d \in Poses(objects[o].data) : TmUpdateSelected_v1(o, d)
    \/ \E o \in Objs : \E b \in BOOLEAN : Set_tm_active_v1(o, b)
    \/ \E o \in Objs : \E v \in (0 - MaxMultiply)..MaxMultiply :
          Set_tm_multiply_v1(o, v)

SpecV1 == InitV1 /\ [][NextV1]_vars

\* ---------------------------------------------------------------- the claims
\* The calls of tm_update the last step made.
Calls == {trace.calls[i] : i \in DOMAIN trace.calls}

\* The call went past the early returns of tm_update.
Ran(call) ==
    call.outcome \notin {"not_mesh", "not_active", "no_output", "wrong_mode"}

\* The call ran its per-vertex loop to the end of tm_update.
Finished(call) == call.outcome = "finished"

\* the sum of f[i] over the indices i of the set S
RECURSIVE SumOver(_, _)
SumOver(S, f) ==
    IF S = {} THEN 0
    ELSE LET i == CHOOSE i \in S : TRUE IN f[i] + SumOver(S \ {i}, f)

\* the edges of the mesh that meet vertex v
IncidentEdges(data, v) ==
    {i \in DOMAIN data.edges : v \in {data.edges[i][1], data.edges[i][2]}}

\* C1 (as claimed): a tick at the frame processed last runs no update and
\* changes nothing; a tick at any other frame calls tm_update for every object
\* of the scene.
C1_FrameGate ==
    [][trace'.op = "tm_update_handler" =>
          IF last_processed_frame = <<trace'.frame>>
          THEN /\ trace'.calls = <<>>
               /\ objects' = objects
               /\ geometry_cache' = geometry_cache
          ELSE {trace'.calls[i].obj : i \in DOMAIN trace'.calls} = DOMAIN objects
      ]_vars

\* C2: when tm_update has run its edge loop, the weight of every vertex is the
\* sum, over the edges that meet it, of (deformed length - rest length) *
\* tm_multiply, the rest length being that of the mesh, cached or not; a
\* vertex with no edge has weight 0.
C2_WeightsAreEdgeSums ==
    \A c \in Calls :
        Finished(c) =>
            LET data == objects[c.obj].data
            IN  \A v \in 1..data.vertices :
                    c.weights[v] =
                        SumOver(IncidentEdges(data, v),
                                [i \in DOMAIN data.edges |->
                                    (c.deformed[i] - data.lengths[i]) * data.tm_multiply])

\* C2's case: a cached triangle whose first edge is lengthened and whose
\* second is shortened: vertex 1 nets a positive weight, vertex 3 a negative
\* one, their shared neighbour 2 nets 0, and the loose vertex 4 keeps 0.
C2_Witness ==
    \E c \in Calls :
        /\ Finished(c)
        /\ objects[c.obj].data.tm_enable_geometry_cache
        /\ c.tm_multiply = 2
        /\ c.deformed[1] > c.original[1] /\ c.deformed[2] < c.original[2]
        /\ c.deformed[3] = c.original[3]
        /\ c.weights[1] > 0 /\ c.weights[2] = 0 /\ c.weights[3] < 0
        /\ c.weights[4] = 0

\* C3 (as claimed): after an update that ran to its end, every vertex has
\* tm_minimum <= stretch <= tm_maximum and tm_minimum <= squeeze <= tm_maximum.
C3_ClampedToRange ==
    \A c \in Calls :
        Finished(c) =>
            \A v \in DOMAIN c.stretch :
                /\ c.tm_minimum <= c.stretch[v] /\ c.stretch[v] <= c.tm_maximum
                /\ c.tm_minimum <= c.squeeze[v] /\ c.squeeze[v] <= c.tm_maximum

\* C4: after an update that ran to its end, every vertex has stretch or
\* squeeze equal to tm_minimum: squeeze when its weight is >= 0, stretch when
\* its weight is < 0, both when its weight is 0.
C4_OneChannelAtMinimum ==
    \A c \in Calls :
        Finished(c) =>
            \A v \in DOMAIN c.weights :
                /\ c.stretch[v] = c.tm_minimum \/ c.squeeze[v] = c.tm_minimum
                /\ c.weights[v] >= 0 => c.squeeze[v] = c.tm_minimum
                /\ c.weights[v] < 0 => c.stretch[v] = c.tm_minimum
                /\ c.weights[v] = 0 =>
                       c.stretch[v] = c.tm_minimum /\ c.squeeze[v] = c.tm_minimum

\* C4's case: under a minimum above 0, one update leaves a stretched vertex,
\* a squeezed vertex and a vertex of weight 0.
C4_Witness ==
    \E c \in Calls :
        /\ Finished(c)
        /\ c.tm_minimum > 0 /\ c.tm_minimum < c.tm_maximum
        /\ \E v \in DOMAIN c.weights :
              c.weights[v] > 0 /\ c.stretch[v] > c.tm_minimum
        /\ \E v \in DOMAIN c.weights :
              c.weights[v] < 0 /\ c.squeeze[v] > c.tm_minimum
        /\ \E v \in DOMAIN c.weights : c.weights[v] = 0

\* The corner of polygon p at position k holds the colour of its vertex under
\* the stretch and squeeze values of call c.
CornerHolds(layer, polygon, k, c) ==
    layer[loop_indices(polygon)[k]] =
        <<c.stretch[polygon.vertices[k]], c.squeeze[polygon.vertices[k]], 0, Unit>>

CornersHold(c) ==
    LET data == objects[c.obj].data
    IN  \A p \in DOMAIN data.polygons :
            \A k \in DOMAIN data.polygons[p].vertices :
                CornerHolds(data.vertex_colors["tm_tension"], data.polygons[p], k, c)

\* C5 (as claimed): with colour output enabled, after tm_update has run to its
\* end every corner of every polygon holds (stretch[v], squeeze[v], 0, 1) of
\* its vertex v in tm_tension, with the mapping cached or computed.
C5_CornersHoldVertexColor ==
    \A c \in Calls :
        (Finished(c) /\ objects[c.obj].data.tm_enable_vertex_colors) =>
            CornersHold(c)

\* The cache is off, or the entry's index mapping is that of the mesh's
\* polygons as they are now.
MappingCurrent(o) ==
    objects[o].data.tm_enable_geometry_cache =>
        /\ o \in DOMAIN geometry_cache
        /\ geometry_cache[o].vertex_color_index_mapping =
               calculate_vertex_color_index_mapping(objects[o].data)

\* C5 (amended): with colour output enabled, after tm_update has run to its
\* end every corner of every polygon holds (stretch[v], squeeze[v], 0, 1) of
\* its vertex v in tm_tension, provided that the cache is off or the cached
\* index mapping is that of the mesh's current polygons.
C5_CornersHoldUnderCurrentMapping ==
    \A c \in Calls :
        (/\ Finished(c)
         /\ objects[c.obj].data.tm_enable_vertex_colors
         /\ MappingCurrent(c.obj)) =>
            CornersHold(c)

\* C5's case: two triangles coloured through the cached mapping, where the
\* vertex shared by both polygons is stretched and another vertex is not.
C5_Witness ==
    \E c \in Calls :
        /\ Finished(c)
        /\ objects[c.obj].data.tm_enable_vertex_colors
        /\ objects[c.obj].data.tm_enable_geometry_cache
        /\ MappingCurrent(c.obj)
        /\ Len(objects[c.obj].data.polygons) = 2
        /\ c.stretch[1] > 0 /\ c.stretch[3] = 0
        /\ objects[c.obj].data.vertex_colors["tm_tension"][4] =
               <<c.stretch[1], c.squeeze[1], 0, Unit>>

\* C6 (as claimed, for revision 1.0.1): after tm_update, the group named
\* tm_stretch holds the weight of every vertex of weight >= 0 and 0.0 for the
\* others, and the group named tm_squeeze holds the negated weight of every
\* vertex of weight < 0 and 0.0 for the others.
C6_GroupsHoldTheirChannel ==
    \A c \in Calls :
        Finished(c) =>
            LET groups == objects[c.obj].vertex_groups
            IN  \A v \in DOMAIN c.weights :
                    IF c.weights[v] >= 0
                    THEN groups["tm_stretch"][v] = c.weights[v] /\ groups["tm_squeeze"][v] = 0
                    ELSE groups["tm_stretch"][v] = 0 /\ groups["tm_squeeze"][v] = 0 - c.weights[v]

\* The cached rest data disagrees with the mesh's edge or loop-corner count.
Mismatch(entry, data) ==
    \/ Len(entry.original_edge_lengths) # Len(data.edges)
    \/ Len(entry.vertex_color_index_mapping) # NumLoops(data)

\* Every vertex group and colour layer the object had holds what it held.
KeptOutputs(before, after) ==
    /\ \A n \in DOMAIN before.vertex_groups :
          after.vertex_groups[n] = before.vertex_groups[n]
    /\ \A n \in DOMAIN before.data.vertex_colors :
          after.data.vertex_colors[n] = before.data.vertex_colors[n]

\* C7 (as claimed): when a frame tick or tm_update_selected updates a mesh
\* whose cache entry disagrees with its edge count or loop-corner count, no
\* vertex group and no colour layer the mesh had is changed.
C7_MismatchWritesNothing ==
    [][\A i \in DOMAIN trace'.calls :
          LET o == trace'.calls[i].obj
          IN  (/\ trace'.op \in {"tm_update_handler", "tm_update_selected"}
               /\ Ran(trace'.calls[i])
               /\ objects[o].data.tm_enable_geometry_cache
               /\ o \in DOMAIN geometry_cache
               /\ Mismatch(geometry_cache[o], objects[o].data)) =>
                  KeptOutputs(objects[o], objects'[o])
      ]_vars

\* C8 (as claimed): when tm_update raises for one object during a tick, the
\* tick still calls tm_update for every object of the scene.
C8_SweepRunsToItsEnd ==
    (trace.op = "tm_update_handler" /\ \E c \in Calls : Raised(c)) =>
        \A o \in Objs : \E c \in Calls : c.obj = o

\* C9 (as claimed): no update runs its per-vertex loop with tm_minimum above
\* tm_maximum.
C9_NoUpdateWithMinimumAboveMaximum ==
    \A c \in Calls :
        (Ran(c) /\ c.weights # <<>>) => c.tm_minimum <= c.tm_maximum

\* C10: a frame tick, a tm_update_selected and a step of the host leave every
\* entry of geometry_cache in place and unchanged, for the meshes whose cache
\* flag is on before and after the step.
C10_EntryKeptUntilRefresh ==
    [][trace'.op \in {"tm_update_handler", "tm_update_selected", "host"} =>
          \A o \in DOMAIN geometry_cache :
              (/\ objects[o].data.tm_enable_geometry_cache
               /\ objects'[o].data.tm_enable_geometry_cache) =>
                  /\ o \in DOMAIN geometry_cache'
                  /\ geometry_cache'[o] = geometry_cache[o]
      ]_vars

\* C10's case: a frame tick has just updated a mesh that was edited after its
\* cache entry was built: the entry still holds the rest data of the mesh as
\* it was.
C10_Witness ==
    /\ trace.op = "tm_update_handler"
    /\ \E c \in Calls :
          /\ Ran(c)
          /\ objects[c.obj].data.tm_enable_geometry_cache
          /\ c.obj \in DOMAIN geometry_cache
          /\ Mismatch(geometry_cache[c.obj], objects[c.obj].data)

\* C11 (as claimed): a step that takes a mesh's tm_active from on to off leaves
\* no entry for that mesh in geometry_cache.
C11_DeactivationDropsEntry ==
    [][\A o \in DOMAIN objects :
          (objects[o].data.tm_active /\ ~objects'[o].data.tm_active) =>
              o \notin DOMAIN geometry_cache'
      ]_vars

\* geometry_cache as the step's callback hands it to tm_update:
\* tm_update_geometry_cache refreshes the entry of its object first.
CacheBeforeUpdate(o) ==
    IF trace'.op = "tm_update_geometry_cache"
    THEN update_geometry_cache_for_object(geometry_cache, objects', o)
    ELSE geometry_cache

\* The entry of object o, or <<>> when it has none.
EntryOf(cache, o) == IF o \in DOMAIN cache THEN <<cache[o]>> ELSE <<>>

\* C12: every call of tm_update leaves the object's vertex groups as they were
\* when vertex-group output is off (none created, none written), leaves its
\* colour layers as they were when colour output is off, and with both off
\* returns before its modifiers are hidden and before any weight is computed,
\* leaving the modifiers, the object's cache entry, the vertex groups and the
\* colour layers unchanged.
C12_OutputOnlyWhenEnabled ==
    [][\A i \in DOMAIN trace'.calls :
          LET c == trace'.calls[i]
              o == c.obj
              data == objects'[o].data
              groups_kept == objects'[o].vertex_groups = objects[o].vertex_groups
              colors_kept == objects'[o].data.vertex_colors = objects[o].data.vertex_colors
          IN  /\ ~data.tm_enable_vertex_groups => groups_kept
              /\ ~data.tm_enable_vertex_colors => colors_kept
              /\ (~data.tm_enable_vertex_groups /\ ~data.tm_enable_vertex_colors) =>
                     /\ ~Ran(c)
                     /\ c.weights = <<>> /\ c.shown = <<>>
                     /\ objects'[o].modifiers = objects[o].modifiers
                     /\ EntryOf(geometry_cache', o) = EntryOf(CacheBeforeUpdate(o), o)
                     /\ groups_kept /\ colors_kept
      ]_vars

\* C12's case: an update ran to its end with colour output on and vertex-group
\* output off, on a mesh whose cache flag is on: the tm_tension layer holds a
\* stretched corner and the object has no vertex group.
C12_Witness ==
    \E c \in Calls :
        /\ Finished(c)
        /\ objects[c.obj].data.tm_enable_vertex_colors
        /\ ~objects[c.obj].data.tm_enable_vertex_groups
        /\ objects[c.obj].data.tm_enable_geometry_cache
        /\ DOMAIN objects[c.obj].vertex_groups = {}
        /\ "tm_tension" \in DOMAIN objects[c.obj].data.vertex_colors
        /\ \E k \in DOMAIN objects[c.obj].data.vertex_colors["tm_tension"] :
              objects[c.obj].data.vertex_colors["tm_tension"][k][1] > 0

\* The entry of object o is the one update_geometry_cache_for_object would
\* build from the mesh as it is now.
EntryCurrent(o) ==
    /\ o \in DOMAIN geometry_cache
    /\ geometry_cache[o] =
           GeometryData(calculate_original_edge_lengths(objects[o].data),
                        calculate_vertex_color_index_mapping(objects[o].data))

\* tm_update of object o under deformation d with the geometry cache disabled
Uncached(o, d) ==
    tm_update([objects EXCEPT ![o].data.tm_enable_geometry_cache = FALSE],
              geometry_cache, o, d)

\* C13: when tm_update has gone past its early returns with the cache enabled
\* and the object's entry is that of the mesh as it is, the same update with
\* the cache disabled ends the same way, computes the same stretch and squeeze
\* values and leaves every vertex group and colour layer as the cached update
\* wrote it.
C13_CachedAsUncached ==
    \A c \in Calls :
        (/\ Ran(c)
         /\ objects[c.obj].data.tm_enable_geometry_cache
         /\ EntryCurrent(c.obj)) =>
            LET u == Uncached(c.obj, c.deformed)
            IN  /\ u.call.outcome = c.outcome
                /\ u.call.weights = c.weights
                /\ u.call.stretch = c.stretch
                /\ u.call.squeeze = c.squeeze
                /\ u.objects[c.obj].vertex_groups = objects[c.obj].vertex_groups
                /\ u.objects[c.obj].data.vertex_colors =
                       objects[c.obj].data.vertex_colors

\* C13's case: a frame tick has updated two triangles through a current entry
\* with groups and colours on, leaving a stretched vertex.
C13_Witness ==
    /\ trace.op = "tm_update_handler"
    /\ \E c \in Calls :
          /\ Finished(c)
          /\ objects[c.obj].data.tm_enable_geometry_cache
          /\ EntryCurrent(c.obj)
          /\ objects[c.obj].data.tm_enable_vertex_colors
          /\ objects[c.obj].data.tm_enable_vertex_groups
          /\ Len(objects[c.obj].data.polygons) = 2
          /\ c.deformed # c.original
          /\ \E v \in DOMAIN c.stretch : c.stretch[v] > 0

\* C14: every call of tm_update leaves each modifier of its object with the
\* show_viewport it had before the call, and a call that goes past the early
\* returns evaluates the deformed mesh with the modifiers of a kept type as
\* they were and all others hidden.
C14_ModifiersRestored ==
    [][\A i \in DOMAIN trace'.calls :
          LET c == trace'.calls[i]
              before == objects[c.obj].modifiers
          IN  /\ objects'[c.obj].modifiers = before
              /\ Ran(c) =>
                     c.shown = [k \in DOMAIN before |->
                                   IF before[k].type \in kept_modifiers
                                   THEN before[k].show_viewport
                                   ELSE FALSE]
      ]_vars

\* C14's case: an update has gone past the early returns on an object whose
\* first modifier is a shown subdivision surface and whose second is a hidden
\* armature: both were hidden for the evaluation, and the first is shown again.
C14_Witness ==
    \E c \in Calls :
        /\ Ran(c)
        /\ Len(objects[c.obj].modifiers) = 2
        /\ objects[c.obj].modifiers[1] = [type |-> "SUBSURF", show_viewport |-> TRUE]
        /\ objects[c.obj].modifiers[2] = [type |-> "ARMATURE", show_viewport |-> FALSE]
        /\ c.shown = <<FALSE, FALSE>>

\* C15: every object that has an entry in geometry_cache has
\* tm_enable_geometry_cache set on its mesh.
C15_EntryOnlyWhileFlagOn ==
    \A o \in DOMAIN geometry_cache :
        /\ o \in DOMAIN objects
        /\ objects[o].data.tm_enable_geometry_cache

\* C15's case: after a frame was processed, a manual update has run to its
\* end on a mesh that has an entry in geometry_cache.
C15_Witness ==
    /\ trace.op = "tm_update_selected"
    /\ last_processed_frame # <<>>
    /\ \E c \in Calls :
          /\ Finished(c)
          /\ c.obj \in DOMAIN geometry_cache
          /\ objects[c.obj].data.tm_enable_geometry_cache

====
